---- MODULE Spec2Model ----
(***************************************************************************)
(* Order lifecycle and split-bill settlement of the restaurant server      *)
(* (route handlers of registerRoutes, tables of shared/schema.ts).         *)
(*                                                                         *)
(* Every route handler is an async function: it runs until its next await  *)
(* on the storage layer, so a handler is a chain of steps, one per storage *)
(* call, and the steps of concurrent requests interleave.  Spec (the order  *)
(* lifecycle) and SpecSettle (the settlement of orders that exist) run one *)
(* request at a time; SpecConc runs the settlement requests of two clients *)
(* interleaved.  The rows of db.transaction become visible at its commit   *)
(* step (PostgreSQL's default isolation, read committed: a statement reads *)
(* what is committed when it runs plus the transaction's own writes, and   *)
(* a row written by an open transaction blocks other writers).             *)
(*                                                                         *)
(* Money: decimal(10,2) columns are held in cents.  Amounts a client sends *)
(* for a bill share are held in half-cents, so that the rounding of the    *)
(* decimal(10,2) column on insert is part of the model.                    *)
(***************************************************************************)
EXTENDS Integers, Sequences, FiniteSets, TLC

\* ------------------------------------------------------------- bounds
NumTables == 2
NumMenu == 2
MaxOrders == 2
MaxItems == 2
MaxReqItems == 2
MaxShares == 3
MaxCount == 2
NumSockets == 2
MaxReceived == 2

VARIABLES tables, menuItems, orders, orderItems, payments, billShares,
          completions, req, clients, sockets

vars == <<tables, menuItems, orders, orderItems, payments, billShares,
          completions, req, clients, sockets>>

db == <<tables, menuItems, orders, orderItems, payments, billShares>>

\* ------------------------------------------------------------- schema
tableStatusEnum == {"free", "occupied", "reserved"}
orderStatusEnum == {"pending", "confirmed", "completed", "cancelled"}
orderItemStatusEnum ==
    {"queued", "preparing", "almost_ready", "ready", "delivered", "cancelled"}

TableIds == 1..NumTables
MenuIds == 1..NumMenu

\* The two clients whose requests interleave.
Reqs == {"r1", "r2"}

Idle == [op |-> "idle", pc |-> "idle"]

\* ------------------------------------------------------------- helpers
RECURSIVE SeqSum(_)
SeqSum(s) == IF s = <<>> THEN 0 ELSE Head(s) + SeqSum(Tail(s))

RECURSIVE SetSum(_, _)
SetSum(S, f) ==
    IF S = {} THEN 0
    ELSE LET x == CHOOSE y \in S : TRUE IN f[x] + SetSum(S \ {x}, f)

Abs(x) == IF x < 0 THEN -x ELSE x

\* res.status(code).json(...) : the handler is over; what is kept of the
\* request is its outcome, the status code, the error message of the body
\* ("" without one) and what it has broadcast.
Response(op, code, err, evs) ==
    [op |-> op, pc |-> "done", http |-> code, error |-> err, events |-> evs]

\* broadcast(message): the message is handed to every open client; the
\* request keeps the list of what it has broadcast.
broadcast(r, msg) == Append(req[r].events, msg)

\* ------------------------------------------------------------- WebSocket clients
\* The sockets that may connect to /ws.  clients is the Set of the server;
\* of a socket the model holds its readyState, the events the server has
\* seen of it, and the messages sent to it.
WsIds == 1..NumSockets

NoSocket == [readyState |-> "CONNECTING", seen |-> {}, received |-> <<>>]

\* the socket is sent to whatever its readyState
send_All(msgs) ==
    [c \in WsIds |->
        IF c \in clients
        THEN [sockets[c] EXCEPT !.received = @ \o msgs]
        ELSE sockets[c]]

\* clients.forEach(client => { if (client.readyState === OPEN) client.send(data) }),
\* for the messages a handler broadcasts in one step
send(msgs) ==
    [c \in WsIds |->
        IF c \in clients /\ sockets[c].readyState = "OPEN"
        THEN [sockets[c] EXCEPT !.received = @ \o msgs]
        ELSE sockets[c]]

\* Room for one more message: the bound on what a socket is sent.
Room == \A c \in WsIds : Len(sockets[c].received) < MaxReceived

\* wss.on("connection"): clients.add(ws)
WS_Connection(c) ==
    /\ sockets[c].readyState = "CONNECTING"
    /\ clients' = clients \cup {c}
    /\ sockets' = [sockets EXCEPT ![c].readyState = "OPEN",
                                  ![c].seen = @ \cup {"connection"}]
    /\ UNCHANGED db /\ UNCHANGED <<completions, req>>

\* The closing handshake of an open socket has begun: no handler of the
\* server runs, the socket is CLOSING until its close event.
WS_Closing(c) ==
    /\ sockets[c].readyState = "OPEN"
    /\ sockets' = [sockets EXCEPT ![c].readyState = "CLOSING"]
    /\ UNCHANGED db /\ UNCHANGED <<completions, req, clients>>

\* the error handler leaves the socket in the Set
WS_Error_Keep(c) ==
    /\ sockets[c].readyState \in {"OPEN", "CLOSING"}
    /\ \E rs \in {sockets[c].readyState, "CLOSING"} :
          sockets' = [sockets EXCEPT ![c].readyState = rs,
                                     ![c].seen = @ \cup {"error"}]
    /\ UNCHANGED db /\ UNCHANGED <<completions, req, clients>>

\* ws.on("error"): clients.delete(ws); the socket may go on to close
WS_Error(c) ==
    /\ sockets[c].readyState \in {"OPEN", "CLOSING"}
    /\ clients' = clients \ {c}
    /\ \E rs \in {sockets[c].readyState, "CLOSING"} :
          sockets' = [sockets EXCEPT ![c].readyState = rs,
                                     ![c].seen = @ \cup {"error"}]
    /\ UNCHANGED db /\ UNCHANGED <<completions, req>>

\* ws.on("close"): clients.delete(ws)
WS_Close(c) ==
    /\ sockets[c].readyState \in {"OPEN", "CLOSING"}
    /\ clients' = clients \ {c}
    /\ sockets' = [sockets EXCEPT ![c].readyState = "CLOSED",
                                  ![c].seen = @ \cup {"close"}]
    /\ UNCHANGED db /\ UNCHANGED <<completions, req>>

\* ------------------------------------------------- row locks of open
\* ------------------------------------------------- transactions
\* markShareAsPaid's transaction holds the bill share it has updated until
\* it ends, and the order and the table once it has updated them.
HoldsShare(q, s) ==
    /\ req[q].op = "markShareAsPaid"
    /\ req[q].pc \in {"select", "order", "table", "broadcast", "commit"}
    /\ req[q].shareId = s

HoldsOrder(q, o) ==
    /\ req[q].op = "markShareAsPaid"
    /\ req[q].pc \in {"table", "broadcast", "commit"}
    /\ req[q].orderId = o

HoldsTable(q, t) ==
    /\ req[q].op = "markShareAsPaid"
    /\ req[q].pc \in {"broadcast", "commit"}
    /\ req[q].tableId = t

\* createSplitBill's transaction holds the unique key payments.order_id of
\* the payment it has inserted.
HoldsPaymentKey(q, o) ==
    /\ req[q].op = "createSplitBill"
    /\ req[q].pc \in {"shares", "commit"}
    /\ req[q].orderId = o

ShareLocked(r, s) == \E q \in Reqs \ {r} : HoldsShare(q, s)
OrderLocked(r, o) == \E q \in Reqs \ {r} : HoldsOrder(q, o)
TableLocked(r, t) == \E q \in Reqs \ {r} : HoldsTable(q, t)
PaymentKeyLocked(r, o) == \E q \in Reqs \ {r} : HoldsPaymentKey(q, o)

\* ------------------------------------------------------------- storage
\* storage.getOrderById(id).orderItems : the item ids of an order
ItemsOf(o) == {i \in DOMAIN orderItems : orderItems[i].orderId = o}

\* parseFloat(i.price) * i.quantity, in cents
LineTotal(i) == orderItems[i].price * orderItems[i].quantity

\* the sum over the non-cancelled items of an order
ActiveTotal(o) ==
    SetSum({i \in ItemsOf(o) : orderItems[i].status # "cancelled"},
           [i \in DOMAIN orderItems |-> LineTotal(i)])

\* storage.updateOrderStatus(id, status)
SetOrderStatus(o, st) == [orders EXCEPT ![o].status = st]

\* storage.updateOrderTotal(id, total)
SetOrderTotal(o, t) == [orders EXCEPT ![o].total = t]

\* storage.updateOrderItemStatus(id, status)
SetItemStatus(i, st) == [orderItems EXCEPT ![i].status = st]

\* storage.updateTableStatus(id, status); an id without a row updates nothing
SetTableStatus(t, st) ==
    IF t \in DOMAIN tables THEN [tables EXCEPT ![t] = st] ELSE tables

\* Ids a client may name: every row, and one id that has no row.
OrderArgs == 1..(Len(orders) + 1)
ItemArgs == 1..(Len(orderItems) + 1)
PaymentArgs == 1..(Len(payments) + 1)
ShareArgs == 1..(Len(billShares) + 1)
TableArgs == 1..(NumTables + 1)

\* ------------------------------------------------------------- createOrder
\* The items of a request: menu item 1 twice, menu item 2 once, or a menu
\* item that does not exist.
ReqItemChoices ==
    { [menuItemId |-> 1, quantity |-> 2],
      [menuItemId |-> 2, quantity |-> 1],
      [menuItemId |-> NumMenu + 1, quantity |-> 1] }

ReqItemLists ==
    UNION { [1..n -> ReqItemChoices] : n \in 0..MaxReqItems }

\* How many order_items rows a list of requested items inserts.
RowsOf(items) ==
    Cardinality({k \in DOMAIN items : items[k].menuItemId \in MenuIds})

\* Rows the createOrder requests in flight have yet to insert.
PendingRows ==
    SetSum({q \in Reqs : req[q].op = "createOrder" /\ req[q].pc = "items"},
           [q \in Reqs |-> IF req[q].op = "createOrder" /\ req[q].pc = "items"
                            THEN RowsOf(req[q].items) ELSE 0])

\* storage.createOrder({tableId, status: "pending", total: "0.00"});
\* orders.table_id references tables.id, and a throw is answered 400
CO_CreateOrder(r) ==
    /\ req[r] = Idle
    /\ Len(orders) < MaxOrders
    /\ \E tableId \in TableArgs, items \in ReqItemLists :
        /\ Len(orderItems) + PendingRows + RowsOf(items) <= MaxItems
        /\ IF tableId \in DOMAIN tables
           THEN /\ orders' = Append(orders,
                       [tableId |-> tableId, status |-> "pending", total |-> 0])
                /\ req' = [req EXCEPT ![r] =
                       [op |-> "createOrder",
                        pc |-> IF items = <<>> THEN "total" ELSE "items",
                        tableId |-> tableId, items |-> items,
                        requested |-> items,
                        orderId |-> Len(orders) + 1, total |-> 0]]
           ELSE /\ orders' = orders
                /\ req' = [req EXCEPT ![r] =
                       Response("createOrder", 400, "violates foreign key constraint", <<>>)]
    /\ UNCHANGED <<tables, menuItems, orderItems, payments, billShares, completions>>
    /\ UNCHANGED <<clients, sockets>>

\* The request whose body has no items array: storage.createOrder inserts
\* the order, `for (const item of items)` throws, and the catch answers 400
\* with the order left as it was inserted.
CO_NotIterable(r) ==
    /\ req[r] = Idle
    /\ Len(orders) < MaxOrders
    /\ \E tableId \in TableIds :
        /\ orders' = Append(orders,
               [tableId |-> tableId, status |-> "pending", total |-> 0])
        /\ req' = [req EXCEPT ![r] =
               Response("createOrder", 400, "items is not iterable", <<>>)]
    /\ UNCHANGED <<tables, menuItems, orderItems, payments, billShares, completions>>
    /\ UNCHANGED <<clients, sockets>>

\* One turn of the loop without `if (!menuItem) continue`: a requested item
\* without a menu item gets a row too, at price 0.
CO_Item_NoSkip(r) ==
    /\ req[r].op = "createOrder" /\ req[r].pc = "items"
    /\ LET item == Head(req[r].items)
           rest == Tail(req[r].items)
           next == IF rest = <<>> THEN "total" ELSE "items"
           price == IF item.menuItemId \in DOMAIN menuItems
                    THEN menuItems[item.menuItemId] ELSE 0
       IN /\ orderItems' = Append(orderItems,
                 [orderId |-> req[r].orderId, menuItemId |-> item.menuItemId,
                  quantity |-> item.quantity, status |-> "queued", price |-> price])
          /\ req' = [req EXCEPT ![r].items = rest, ![r].pc = next,
                        ![r].total = @ + price * item.quantity]
    /\ UNCHANGED <<tables, menuItems, orders, payments, billShares, completions>>
    /\ UNCHANGED <<clients, sockets>>

\* One turn of the loop: getMenuItemById, then createOrderItem with the price
\* of the menu item, and total += parseFloat(menuItem.price) * item.quantity.
CO_Item(r) ==
    /\ req[r].op = "createOrder" /\ req[r].pc = "items"
    /\ LET item == Head(req[r].items)
           rest == Tail(req[r].items)
           next == IF rest = <<>> THEN "total" ELSE "items"
       IN IF item.menuItemId \in DOMAIN menuItems
          THEN /\ orderItems' = Append(orderItems,
                      [orderId |-> req[r].orderId,
                       menuItemId |-> item.menuItemId,
                       quantity |-> item.quantity,
                       status |-> "queued",
                       price |-> menuItems[item.menuItemId]])
               /\ req' = [req EXCEPT ![r].items = rest, ![r].pc = next,
                             ![r].total = @ + menuItems[item.menuItemId] * item.quantity]
          ELSE \* if (!menuItem) continue
               /\ orderItems' = orderItems
               /\ req' = [req EXCEPT ![r].items = rest, ![r].pc = next]
    /\ UNCHANGED <<tables, menuItems, orders, payments, billShares, completions>>
    /\ UNCHANGED <<clients, sockets>>

\* storage.updateOrderTotal(order.id, total.toFixed(2))
CO_Total(r) ==
    /\ req[r].op = "createOrder" /\ req[r].pc = "total"
    /\ ~OrderLocked(r, req[r].orderId)
    /\ orders' = SetOrderTotal(req[r].orderId, req[r].total)
    /\ req' = [req EXCEPT ![r].pc = "table"]
    /\ UNCHANGED <<tables, menuItems, orderItems, payments, billShares, completions>>
    /\ UNCHANGED <<clients, sockets>>

\* createOrder without the update of the table
CO_Table_Skip(r) ==
    /\ req[r].op = "createOrder" /\ req[r].pc = "table"
    /\ req' = [req EXCEPT ![r].pc = "respond"]
    /\ UNCHANGED db /\ UNCHANGED completions
    /\ UNCHANGED <<clients, sockets>>

\* storage.updateTableStatus(tableId, "occupied")
CO_Table(r) ==
    /\ req[r].op = "createOrder" /\ req[r].pc = "table"
    /\ ~TableLocked(r, req[r].tableId)
    /\ tables' = SetTableStatus(req[r].tableId, "occupied")
    /\ req' = [req EXCEPT ![r].pc = "respond"]
    /\ UNCHANGED <<menuItems, orders, orderItems, payments, billShares, completions>>
    /\ UNCHANGED <<clients, sockets>>

\* broadcast order_created, res.status(201)
CO_Respond(r) ==
    /\ req[r].op = "createOrder" /\ req[r].pc = "respond"
    /\ req' = [req EXCEPT ![r] = Response("createOrder", 201, "",
                  <<[type |-> "order_created", id |-> req[r].orderId]>>)]
    /\ UNCHANGED db /\ UNCHANGED completions
    /\ clients' = clients /\ sockets' = send(req'[r].events)

\* ------------------------------------------------------------- confirmOrder
\* the update goes ahead without looking at what updateOrderStatus returned
CF_Update_Upsert(r) ==
    /\ req[r] = Idle
    /\ \E id \in OrderArgs :
        /\ ~OrderLocked(r, id)
        /\ orders' = IF id \in DOMAIN orders
                      THEN SetOrderStatus(id, "confirmed") ELSE orders
        /\ req' = [req EXCEPT ![r] =
               [op |-> "confirmOrder", pc |-> "respond", orderId |-> id]]
    /\ UNCHANGED <<tables, menuItems, orderItems, payments, billShares, completions>>
    /\ UNCHANGED <<clients, sockets>>

\* the update flips the status: a confirmed order goes back to pending
CF_Update_Toggle(r) ==
    /\ req[r] = Idle
    /\ \E id \in OrderArgs :
        IF id \in DOMAIN orders
        THEN /\ ~OrderLocked(r, id)
             /\ orders' = SetOrderStatus(id, IF orders[id].status = "confirmed"
                                             THEN "pending" ELSE "confirmed")
             /\ req' = [req EXCEPT ![r] =
                    [op |-> "confirmOrder", pc |-> "respond", orderId |-> id]]
        ELSE /\ orders' = orders
             /\ req' = [req EXCEPT ![r] =
                    Response("confirmOrder", 404, "Order not found", <<>>)]
    /\ UNCHANGED <<tables, menuItems, orderItems, payments, billShares, completions>>
    /\ UNCHANGED <<clients, sockets>>

\* storage.updateOrderStatus(id, "confirmed"); 404 when there is no such order
CF_Update(r) ==
    /\ req[r] = Idle
    /\ \E id \in OrderArgs :
        IF id \in DOMAIN orders
        THEN /\ ~OrderLocked(r, id)
             /\ orders' = SetOrderStatus(id, "confirmed")
             /\ req' = [req EXCEPT ![r] =
                    [op |-> "confirmOrder", pc |-> "respond", orderId |-> id]]
        ELSE /\ orders' = orders
             /\ req' = [req EXCEPT ![r] =
                    Response("confirmOrder", 404, "Order not found", <<>>)]
    /\ UNCHANGED <<tables, menuItems, orderItems, payments, billShares, completions>>
    /\ UNCHANGED <<clients, sockets>>

\* broadcast order_confirmed, res.json
CF_Respond(r) ==
    /\ req[r].op = "confirmOrder" /\ req[r].pc = "respond"
    /\ req' = [req EXCEPT ![r] = Response("confirmOrder", 200, "",
                  <<[type |-> "order_confirmed", id |-> req[r].orderId]>>)]
    /\ UNCHANGED db /\ UNCHANGED completions
    /\ clients' = clients /\ sockets' = send(req'[r].events)

\* ------------------------------------------------------------- updateOrderItemStatus
\* an item that is cancelled or delivered keeps its status: the update is
\* turned down
UI_Update_Final(r) ==
    /\ req[r] = Idle
    /\ \E orderId \in OrderArgs, itemId \in ItemArgs, status \in orderItemStatusEnum :
        IF itemId \in DOMAIN orderItems
           /\ orderItems[itemId].status \notin {"cancelled", "delivered"}
        THEN /\ orderItems' = SetItemStatus(itemId, status)
             /\ req' = [req EXCEPT ![r] =
                    [op |-> "updateOrderItemStatus", pc |-> "respond",
                     orderId |-> orderId, itemId |-> itemId, status |-> status]]
        ELSE /\ orderItems' = orderItems
             /\ req' = [req EXCEPT ![r] =
                    Response("updateOrderItemStatus", 404, "Order item not found", <<>>)]
    /\ UNCHANGED <<tables, menuItems, orders, payments, billShares, completions>>
    /\ UNCHANGED <<clients, sockets>>

\* storage.updateOrderItemStatus(itemId, status); 404 when there is no such item
UI_Update(r) ==
    /\ req[r] = Idle
    /\ \E orderId \in OrderArgs, itemId \in ItemArgs, status \in orderItemStatusEnum :
        IF itemId \in DOMAIN orderItems
        THEN /\ orderItems' = SetItemStatus(itemId, status)
             /\ req' = [req EXCEPT ![r] =
                    [op |-> "updateOrderItemStatus", pc |-> "respond",
                     orderId |-> orderId, itemId |-> itemId, status |-> status]]
        ELSE /\ orderItems' = orderItems
             /\ req' = [req EXCEPT ![r] =
                    Response("updateOrderItemStatus", 404, "Order item not found", <<>>)]
    /\ UNCHANGED <<tables, menuItems, orders, payments, billShares, completions>>
    /\ UNCHANGED <<clients, sockets>>

\* order.orderItems.every(i => ready || delivered || cancelled)
allReady(o) ==
    \A i \in ItemsOf(o) : orderItems[i].status \in {"ready", "delivered", "cancelled"}

\* getOrderById(orderId of the path), broadcast order_item_status_updated and,
\* for status ready with every item of that order ready, order_ready
UI_Respond(r) ==
    /\ req[r].op = "updateOrderItemStatus" /\ req[r].pc = "respond"
    /\ LET o == req[r].orderId
           first == <<[type |-> "order_item_status_updated", id |-> req[r].itemId]>>
           evs == IF o \in DOMAIN orders /\ req[r].status = "ready" /\ allReady(o)
                  THEN Append(first, [type |-> "order_ready", id |-> o])
                  ELSE first
       IN req' = [req EXCEPT ![r] = Response("updateOrderItemStatus", 200, "", evs)]
    /\ UNCHANGED db /\ UNCHANGED completions
    /\ clients' = clients /\ sockets' = send(req'[r].events)

\* ------------------------------------------------------------- cancelOrderItem
\* the guard also lets an item through that is being prepared
Cancellable_Preparing(st) == st \in {"queued", "pending", "preparing"}

\* ["queued", "pending"].includes(item.status)
Cancellable(st) == st \in {"queued", "pending"}

\* storage.getOrderItemById(itemId); 404 without the item, 400 unless the
\* item is queued or pending
CI_Get(r) ==
    /\ req[r] = Idle
    /\ \E orderId \in OrderArgs, itemId \in ItemArgs :
        req' = [req EXCEPT ![r] =
            IF itemId \notin DOMAIN orderItems
            THEN Response("cancelOrderItem", 404, "Order item not found", <<>>)
            ELSE IF ~Cancellable(orderItems[itemId].status)
            THEN Response("cancelOrderItem", 400,
                     "Cannot cancel item that is already being prepared or delivered", <<>>)
            ELSE [op |-> "cancelOrderItem", pc |-> "update",
                  orderId |-> orderId, itemId |-> itemId, total |-> 0]]
    /\ UNCHANGED db /\ UNCHANGED completions
    /\ UNCHANGED <<clients, sockets>>

\* storage.updateOrderItemStatus(itemId, "cancelled")
CI_Update(r) ==
    /\ req[r].op = "cancelOrderItem" /\ req[r].pc = "update"
    /\ orderItems' = SetItemStatus(req[r].itemId, "cancelled")
    /\ req' = [req EXCEPT ![r].pc = "order"]
    /\ UNCHANGED <<tables, menuItems, orders, payments, billShares, completions>>
    /\ UNCHANGED <<clients, sockets>>

\* storage.getOrderById(orderId of the path), and the total of its items
\* that are not cancelled; without the order the handler answers at once
CI_Order(r) ==
    /\ req[r].op = "cancelOrderItem" /\ req[r].pc = "order"
    /\ req' = [req EXCEPT ![r] =
           IF req[r].orderId \in DOMAIN orders
           THEN [req[r] EXCEPT !.pc = "total", !.total = ActiveTotal(req[r].orderId)]
           ELSE Response("cancelOrderItem", 200, "", <<>>)]
    /\ UNCHANGED db /\ UNCHANGED completions
    /\ UNCHANGED <<clients, sockets>>

\* storage.updateOrderTotal(order.id, total.toFixed(2))
CI_Total(r) ==
    /\ req[r].op = "cancelOrderItem" /\ req[r].pc = "total"
    /\ ~OrderLocked(r, req[r].orderId)
    /\ orders' = SetOrderTotal(req[r].orderId, req[r].total)
    /\ req' = [req EXCEPT ![r].pc = "respond"]
    /\ UNCHANGED <<tables, menuItems, orderItems, payments, billShares, completions>>
    /\ UNCHANGED <<clients, sockets>>

\* broadcast order_item_cancelled, res.json
CI_Respond(r) ==
    /\ req[r].op = "cancelOrderItem" /\ req[r].pc = "respond"
    /\ req' = [req EXCEPT ![r] = Response("cancelOrderItem", 200, "",
                  <<[type |-> "order_item_cancelled", id |-> req[r].orderId]>>)]
    /\ UNCHANGED db /\ UNCHANGED completions
    /\ clients' = clients /\ sockets' = send(req'[r].events)

\* ------------------------------------------------------------- money
\* A decimal(10,2) column rounds what is inserted to two places, half away
\* from zero: half-cents to cents.
RoundCents(h) == IF h >= 0 THEN (h + 1) \div 2 ELSE -((1 - h) \div 2)

\* 0.01, in half-cents
Tolerance == 2

\* Math.abs(sharesTotal - authoritativeTotal) > 0.01 on doubles: the outcomes
\* for a sum of shares (half-cents) and an order total (cents).  At exactly
\* one cent the rounding error of the doubles decides (20.01 against 20.00
\* is a mismatch, 5.01 against 5.00 is none).
SumMismatch(sumH, total) ==
    LET d == Abs(sumH - 2 * total)
    IN IF d > Tolerance THEN {TRUE}
       ELSE IF d = Tolerance THEN {TRUE, FALSE}
       ELSE {FALSE}

\* ------------------------------------------------------------- recordPayment
PaymentOf(o) == {p \in DOMAIN payments : payments[p].orderId = o}

\* payments.order_id without its unique constraint
PaymentError_NoUnique(o, t) ==
    IF o \notin DOMAIN orders \/ t \notin DOMAIN tables
    THEN "violates foreign key constraint"
    ELSE ""

\* the key is violated by the third payment of an order only
PaymentError_Late(o, t) ==
    IF Cardinality(PaymentOf(o)) > 1
    THEN "duplicate key value violates unique constraint"
    ELSE IF o \notin DOMAIN orders \/ t \notin DOMAIN tables
    THEN "violates foreign key constraint"
    ELSE ""

\* What inserting a payment throws: payments.order_id is unique and
\* references orders.id, payments.table_id references tables.id.
PaymentError(o, t) ==
    IF PaymentOf(o) # {} THEN "duplicate key value violates unique constraint"
    ELSE IF o \notin DOMAIN orders \/ t \notin DOMAIN tables
    THEN "violates foreign key constraint"
    ELSE ""

\* The amount a cashier sends: the total of the order.
PaymentAmounts(o) == IF o \in DOMAIN orders THEN {orders[o].total} ELSE {0}

\* the flag of the request is not looked at: the order and the table are
\* settled as for a plain payment
RP_Create_NoFlag(r) ==
    /\ req[r] = Idle
    /\ \E isSplitBill \in BOOLEAN, o \in OrderArgs, t \in TableArgs :
       \E amount \in PaymentAmounts(o) :
        /\ ~PaymentKeyLocked(r, o)
        /\ IF PaymentError(o, t) = ""
           THEN /\ payments' = Append(payments,
                       [orderId |-> o, tableId |-> t, amount |-> amount])
                /\ completions' = Append(completions, 0)
                /\ req' = [req EXCEPT ![r] =
                       [op |-> "recordPayment",
                        pc |-> "order",
                        isSplitBill |-> isSplitBill, orderId |-> o, tableId |-> t,
                        paymentId |-> Len(payments) + 1]]
           ELSE /\ UNCHANGED <<payments, completions>>
                /\ req' = [req EXCEPT ![r] =
                       Response("recordPayment", 400, PaymentError(o, t), <<>>)]
    /\ UNCHANGED <<tables, menuItems, orders, orderItems, billShares>>
    /\ UNCHANGED <<clients, sockets>>

\* insertPaymentSchema.parse, storage.createPayment; the insert waits for an
\* open transaction that holds the same order_id; a throw is answered 400
RP_Create(r) ==
    /\ req[r] = Idle
    /\ \E isSplitBill \in BOOLEAN, o \in OrderArgs, t \in TableArgs :
       \E amount \in PaymentAmounts(o) :
        /\ ~PaymentKeyLocked(r, o)
        /\ IF PaymentError(o, t) = ""
           THEN /\ payments' = Append(payments,
                       [orderId |-> o, tableId |-> t, amount |-> amount])
                /\ completions' = Append(completions, 0)
                /\ req' = [req EXCEPT ![r] =
                       [op |-> "recordPayment",
                        pc |-> IF isSplitBill THEN "respond" ELSE "order",
                        isSplitBill |-> isSplitBill, orderId |-> o, tableId |-> t,
                        paymentId |-> Len(payments) + 1]]
           ELSE /\ UNCHANGED <<payments, completions>>
                /\ req' = [req EXCEPT ![r] =
                       Response("recordPayment", 400, PaymentError(o, t), <<>>)]
    /\ UNCHANGED <<tables, menuItems, orders, orderItems, billShares>>
    /\ UNCHANGED <<clients, sockets>>

\* the table is left as it is
RP_Table_Skip(r) ==
    /\ req[r].op = "recordPayment" /\ req[r].pc = "table"
    /\ req' = [req EXCEPT ![r].pc = "respond"]
    /\ UNCHANGED db /\ UNCHANGED completions
    /\ UNCHANGED <<clients, sockets>>

\* if (!isSplitBill) storage.updateOrderStatus(data.orderId, "completed")
RP_Order(r) ==
    /\ req[r].op = "recordPayment" /\ req[r].pc = "order"
    /\ ~OrderLocked(r, req[r].orderId)
    /\ orders' = SetOrderStatus(req[r].orderId, "completed")
    /\ req' = [req EXCEPT ![r].pc = "table"]
    /\ UNCHANGED <<tables, menuItems, orderItems, payments, billShares, completions>>
    /\ UNCHANGED <<clients, sockets>>

\* storage.updateTableStatus(data.tableId, "free")
RP_Table(r) ==
    /\ req[r].op = "recordPayment" /\ req[r].pc = "table"
    /\ ~TableLocked(r, req[r].tableId)
    /\ tables' = SetTableStatus(req[r].tableId, "free")
    /\ req' = [req EXCEPT ![r].pc = "respond"]
    /\ UNCHANGED <<menuItems, orders, orderItems, payments, billShares, completions>>
    /\ UNCHANGED <<clients, sockets>>

\* broadcast payment_processed, res.status(201)
RP_Respond(r) ==
    /\ req[r].op = "recordPayment" /\ req[r].pc = "respond"
    /\ req' = [req EXCEPT ![r] = Response("recordPayment", 201, "",
                  <<[type |-> "payment_processed", id |-> req[r].paymentId,
                     orderId |-> req[r].orderId, tableId |-> req[r].tableId,
                     isSplitBill |-> req[r].isSplitBill]>>)]
    /\ UNCHANGED db /\ UNCHANGED completions
    /\ clients' = clients /\ sockets' = send(req'[r].events)

\* ------------------------------------------------------------- createSplitBill
\* A share as the client sends it: its name, and its amount, which is text:
\* the digits of a number (held as half-cents) and what follows them.
ShareText(name, amount, rest) ==
    [customerName |-> name, amount |-> amount, rest |-> rest]

Share(name, amount) == ShareText(name, amount, "")

\* share.customerName.trim()
Trim(name) == IF name \in {"", " "} THEN "" ELSE name

\* The share lists a client sends for an order whose total is `total` cents
\* (amounts in half-cents): none, one share of the whole, two halves, a blank
\* and an empty name, a zero and a negative amount, sums that are two cents
\* and one cent off, three shares that end in half a cent, and two halves
\* the second of which has letters after its digits.
ShareLists(total) ==
    LET H == 2 * total
    IN { <<>>,
         <<Share("Alice", H)>>,
         <<Share("Alice", H \div 2), Share("Bob", H - (H \div 2))>>,
         <<Share(" ", H)>>,
         <<Share("Alice", H), Share("", 0)>>,
         <<Share("Alice", H), Share("Bob", 0)>>,
         <<Share("Alice", H + 2), Share("Bob", -2)>>,
         <<Share("Alice", H + 4)>>,
         <<Share("Alice", H + 2)>>,
         <<Share("Alice", 1), Share("Bob", 1), Share("Carol", H - 1)>>,
         <<Share("Alice", H \div 2), ShareText("Bob", H - (H \div 2), "abc")>> }

\* The bill_shares rows that open createSplitBill transactions have yet to
\* commit.
PendingShares ==
    SetSum({q \in Reqs : req[q].op = "createSplitBill" /\ req[q].pc # "done"},
           [q \in Reqs |-> IF req[q].op = "createSplitBill" /\ req[q].pc # "done"
                            THEN Len(req[q].shares) ELSE 0])

\* !share.customerName || !share.customerName.trim()
BlankName(sh) == sh.customerName = "" \/ Trim(sh.customerName) = ""

\* shareAmount < 0 in place of shareAmount <= 0
NotPositive_Strict(sh) == sh.amount < 0

\* isNaN(shareAmount) || shareAmount <= 0
NotPositive(sh) == sh.amount <= 0

\* shares.map(...) throws at the first share that is not valid: its message
ShareError(shares) ==
    LET bad == {k \in DOMAIN shares : BlankName(shares[k]) \/ NotPositive(shares[k])}
        k == CHOOSE j \in bad : \A i \in bad : j <= i
    IN IF bad = {} THEN ""
       ELSE IF BlankName(shares[k])
       THEN "Share " \o ToString(k) \o ": Customer name is required"
       ELSE "Share " \o ToString(k) \o ": Amount must be positive"

\* validatedShares.reduce((sum, s) => sum + parseFloat(s.amount), 0)
sharesTotal(shares) == SeqSum([k \in DOMAIN shares |-> shares[k].amount])

\* What the checks before the first insert throw, for the order as
\* tx.select().from(orders) reads it: the messages of the handler, "" when
\* all pass (the last message without the two sums it quotes); the last
\* check can go either way at exactly one cent.
SplitErrors(o, shares) ==
    IF Len(shares) = 0 THEN {"At least one bill share is required"}
    ELSE IF o \notin DOMAIN orders THEN {"Order not found"}
    ELSE IF orders[o].status # "confirmed"
    THEN {"Order must be confirmed to create split bill"}
    ELSE IF ShareError(shares) # "" THEN {ShareError(shares)}
    ELSE {IF mismatch THEN "Shares total must equal order total" ELSE "" :
             mismatch \in SumMismatch(sharesTotal(shares), orders[o].total)}

\* amount: the sum of the shares the client has sent
PaymentAmount_Client(o, shares) == RoundCents(sharesTotal(shares))

\* amount: order.total, the total of the order as the server holds it
PaymentAmount(o, shares) == orders[o].total

\* The request, the select of the order and the checks: a throw rolls the
\* transaction back and is answered 400
SB_Order(r) ==
    /\ req[r] = Idle
    /\ \E o \in OrderArgs, t \in TableArgs :
       \E shares \in ShareLists(IF o \in DOMAIN orders THEN orders[o].total ELSE 0) :
       \E err \in SplitErrors(o, shares) :
        /\ Len(billShares) + PendingShares + Len(shares) <= MaxShares
        /\ req' = [req EXCEPT ![r] =
               IF err # ""
               THEN Response("createSplitBill", 400, err, <<>>)
               ELSE [op |-> "createSplitBill", pc |-> "payment",
                     orderId |-> o, tableId |-> t, shares |-> shares,
                     amount |-> PaymentAmount(o, shares), inserted |-> <<>>]]
    /\ UNCHANGED db /\ UNCHANGED completions
    /\ UNCHANGED <<clients, sockets>>

\* tx.insert(payments) with amount: order.total; the insert waits for an open
\* transaction that holds the same order_id, and throws on a violated
\* constraint
SB_Payment(r) ==
    /\ req[r].op = "createSplitBill" /\ req[r].pc = "payment"
    /\ ~PaymentKeyLocked(r, req[r].orderId)
    /\ LET err == PaymentError(req[r].orderId, req[r].tableId)
       IN req' = [req EXCEPT ![r] =
              IF err = "" THEN [req[r] EXCEPT !.pc = "shares"]
              ELSE Response("createSplitBill", 400, err, <<>>)]
    /\ UNCHANGED db /\ UNCHANGED completions
    /\ UNCHANGED <<clients, sockets>>

\* What the decimal(10,2) column throws for the text of an amount: parseFloat
\* has read the digits and passed over what follows them, the column does not.
NumericError(sh) ==
    IF sh.rest = "" THEN "" ELSE "invalid input syntax for type numeric"

\* the throw does not undo the insert of the payment
SB_Share_NoRollback(r) ==
    /\ req[r].op = "createSplitBill" /\ req[r].pc = "shares"
    /\ LET k == Len(req[r].inserted) + 1
           sh == req[r].shares[k]
           row == [amount |-> RoundCents(sh.amount), paid |-> FALSE]
       IN IF NumericError(sh) = ""
          THEN /\ req' = [req EXCEPT ![r].inserted = Append(@, row),
                         ![r].pc = IF k = Len(req[r].shares) THEN "commit" ELSE "shares"]
               /\ UNCHANGED <<payments, completions>>
          ELSE /\ req' = [req EXCEPT ![r] =
                      Response("createSplitBill", 400, NumericError(sh), <<>>)]
               /\ payments' = Append(payments,
                      [orderId |-> req[r].orderId, tableId |-> req[r].tableId,
                       amount |-> req[r].amount])
               /\ completions' = Append(completions, 0)
    /\ UNCHANGED <<tables, menuItems, orders, orderItems, billShares>>
    /\ UNCHANGED <<clients, sockets>>

\* tx.insert(billShares) of the next share as the client sent it, paid: false;
\* a throw rolls the transaction back, the payment and the shares inserted
\* before it included, and is answered 400
SB_Share(r) ==
    /\ req[r].op = "createSplitBill" /\ req[r].pc = "shares"
    /\ LET k == Len(req[r].inserted) + 1
           sh == req[r].shares[k]
           row == [amount |-> RoundCents(sh.amount), paid |-> FALSE]
       IN req' = [req EXCEPT ![r] =
              IF NumericError(sh) = ""
              THEN [req[r] EXCEPT !.inserted = Append(@, row),
                       !.pc = IF k = Len(req[r].shares) THEN "commit" ELSE "shares"]
              ELSE Response("createSplitBill", 400, NumericError(sh), <<>>)]
    /\ UNCHANGED db /\ UNCHANGED completions
    /\ UNCHANGED <<clients, sockets>>

\* the commit settles the order as a plain payment does
SB_Commit_Completes(r) ==
    /\ req[r].op = "createSplitBill" /\ req[r].pc = "commit"
    /\ LET p == Len(payments) + 1
       IN /\ payments' = Append(payments,
                 [orderId |-> req[r].orderId, tableId |-> req[r].tableId,
                  amount |-> req[r].amount])
          /\ billShares' = billShares \o
                 [k \in DOMAIN req[r].inserted |->
                     [paymentId |-> p, amount |-> req[r].inserted[k].amount,
                      paid |-> req[r].inserted[k].paid]]
          /\ completions' = Append(completions, 0)
          /\ orders' = SetOrderStatus(req[r].orderId, "completed")
          /\ tables' = SetTableStatus(req[r].tableId, "free")
          /\ req' = [req EXCEPT ![r] = Response("createSplitBill", 201, "", <<>>)]
    /\ UNCHANGED <<menuItems, orderItems>>
    /\ UNCHANGED <<clients, sockets>>

\* the transaction commits: the payment and its shares become visible
\* together; res.status(201)
SB_Commit(r) ==
    /\ req[r].op = "createSplitBill" /\ req[r].pc = "commit"
    /\ LET p == Len(payments) + 1
       IN /\ payments' = Append(payments,
                 [orderId |-> req[r].orderId, tableId |-> req[r].tableId,
                  amount |-> req[r].amount])
          /\ billShares' = billShares \o
                 [k \in DOMAIN req[r].inserted |->
                     [paymentId |-> p, amount |-> req[r].inserted[k].amount,
                      paid |-> req[r].inserted[k].paid]]
          /\ completions' = Append(completions, 0)
          /\ req' = [req EXCEPT ![r] = Response("createSplitBill", 201, "", <<>>)]
    /\ UNCHANGED <<tables, menuItems, orders, orderItems>>
    /\ UNCHANGED <<clients, sockets>>

\* ------------------------------------------------------------- createBillShare
\* The amount of a share posted on its own: 5.00, in half-cents.
BillShareAmounts == {1000}

\* insertBillShareSchema.parse, storage.createBillShare; bill_shares.payment_id
\* references payments.id
BS_Create(r) ==
    /\ req[r] = Idle
    /\ Len(billShares) + PendingShares < MaxShares
    /\ \E p \in PaymentArgs, amount \in BillShareAmounts, paid \in BOOLEAN :
        IF p \in DOMAIN payments
        THEN /\ billShares' = Append(billShares,
                    [paymentId |-> p, amount |-> RoundCents(amount), paid |-> paid])
             /\ req' = [req EXCEPT ![r] = Response("createBillShare", 201, "", <<>>)]
        ELSE /\ billShares' = billShares
             /\ req' = [req EXCEPT ![r] =
                    Response("createBillShare", 400, "violates foreign key constraint", <<>>)]
    /\ UNCHANGED <<tables, menuItems, orders, orderItems, payments, completions>>
    /\ UNCHANGED <<clients, sockets>>

\* ------------------------------------------------------------- markShareAsPaid
\* the update of no row is taken for a success
MS_Update_Silent(r) ==
    /\ req[r] = Idle
    /\ \E s \in ShareArgs :
        /\ ~ShareLocked(r, s)
        /\ req' = [req EXCEPT ![r] =
               IF s \in DOMAIN billShares
               THEN [op |-> "markShareAsPaid", pc |-> "select", shareId |-> s,
                     paymentId |-> billShares[s].paymentId, allPaid |-> FALSE,
                     orderId |-> 0, tableId |-> 0, events |-> <<>>]
               ELSE Response("markShareAsPaid", 200, "", <<>>)]
    /\ UNCHANGED db /\ UNCHANGED completions
    /\ UNCHANGED <<clients, sockets>>

\* tx.update(billShares).set({paid: true}).where(id = shareId).returning();
\* without the row the transaction throws, rolls back, and the answer is 500.
\* The update waits for an open transaction that has written the row.
MS_Update(r) ==
    /\ req[r] = Idle
    /\ \E s \in ShareArgs :
        /\ ~ShareLocked(r, s)
        /\ req' = [req EXCEPT ![r] =
               IF s \in DOMAIN billShares
               THEN [op |-> "markShareAsPaid", pc |-> "select", shareId |-> s,
                     paymentId |-> billShares[s].paymentId, allPaid |-> FALSE,
                     orderId |-> 0, tableId |-> 0, events |-> <<>>]
               ELSE Response("markShareAsPaid", 500, "Share not found", <<>>)]
    /\ UNCHANGED db /\ UNCHANGED completions
    /\ UNCHANGED <<clients, sockets>>

\* allShares.some(s => s.paid) in place of allShares.every(s => s.paid)
allPaid_Some(r) ==
    \E s \in DOMAIN billShares :
        /\ billShares[s].paymentId = req[r].paymentId
        /\ (s = req[r].shareId \/ billShares[s].paid)

\* allShares.every(s => s.paid) over what tx.select().from(billShares) reads:
\* the committed shares of the payment, and its own share as it has written it
allPaid(r) ==
    \A s \in DOMAIN billShares :
        billShares[s].paymentId = req[r].paymentId =>
            (s = req[r].shareId \/ billShares[s].paid)

MS_Select(r) ==
    /\ req[r].op = "markShareAsPaid" /\ req[r].pc = "select"
    /\ req' = [req EXCEPT ![r].allPaid = allPaid(r),
                  ![r].pc = IF allPaid(r) THEN "order" ELSE "commit"]
    /\ UNCHANGED db /\ UNCHANGED completions
    /\ UNCHANGED <<clients, sockets>>

\* tx.select().from(payments) for the order and the table of the payment, and
\* tx.update(orders).set({status: "completed"})
MS_Order(r) ==
    /\ req[r].op = "markShareAsPaid" /\ req[r].pc = "order"
    /\ LET payment == payments[req[r].paymentId]
       IN /\ ~OrderLocked(r, payment.orderId)
          /\ req' = [req EXCEPT ![r].orderId = payment.orderId,
                        ![r].tableId = payment.tableId, ![r].pc = "table"]
    /\ UNCHANGED db /\ UNCHANGED completions
    /\ UNCHANGED <<clients, sockets>>

\* tx.update(tables).set({status: "free"})
MS_Table(r) ==
    /\ req[r].op = "markShareAsPaid" /\ req[r].pc = "table"
    /\ ~TableLocked(r, req[r].tableId)
    /\ req' = [req EXCEPT ![r].pc = "broadcast"]
    /\ UNCHANGED db /\ UNCHANGED completions
    /\ UNCHANGED <<clients, sockets>>

\* broadcast split_bill_completed, inside the transaction callback
MS_Broadcast(r) ==
    /\ req[r].op = "markShareAsPaid" /\ req[r].pc = "broadcast"
    /\ req' = [req EXCEPT ![r].pc = "commit",
                  ![r].events = broadcast(r, [type |-> "split_bill_completed",
                                              id |-> req[r].paymentId])]
    /\ UNCHANGED db /\ UNCHANGED completions
    /\ clients' = clients
    /\ sockets' = send(<<[type |-> "split_bill_completed", id |-> req[r].paymentId]>>)

\* the transaction commits what it has written; res.status(200)
MS_Commit(r) ==
    /\ req[r].op = "markShareAsPaid" /\ req[r].pc = "commit"
    /\ billShares' = [billShares EXCEPT ![req[r].shareId].paid = TRUE]
    /\ IF req[r].allPaid
       THEN /\ orders' = SetOrderStatus(req[r].orderId, "completed")
            /\ tables' = SetTableStatus(req[r].tableId, "free")
            /\ completions' = [completions EXCEPT ![req[r].paymentId] =
                   IF @ < MaxCount THEN @ + 1 ELSE @]
       ELSE UNCHANGED <<orders, tables, completions>>
    /\ req' = [req EXCEPT ![r] = Response("markShareAsPaid", 200, "", req[r].events)]
    /\ UNCHANGED <<menuItems, orderItems, payments>>
    /\ UNCHANGED <<clients, sockets>>

\* ------------------------------------------------------------- the server
\* the response has been sent; the client may send its next request
Respond(r) ==
    /\ req[r].pc = "done"
    /\ req' = [req EXCEPT ![r] = Idle]
    /\ UNCHANGED db /\ UNCHANGED completions
    /\ UNCHANGED <<clients, sockets>>

createOrder(r) ==
    \/ CO_CreateOrder(r) \/ CO_NotIterable(r) \/ CO_Item(r) \/ CO_Total(r)
    \/ CO_Table(r) \/ CO_Respond(r)

confirmOrder(r) == CF_Update(r) \/ CF_Respond(r)

updateOrderItemStatus(r) == UI_Update(r) \/ UI_Respond(r)

cancelOrderItem(r) ==
    CI_Get(r) \/ CI_Update(r) \/ CI_Order(r) \/ CI_Total(r) \/ CI_Respond(r)

recordPayment(r) == RP_Create(r) \/ RP_Order(r) \/ RP_Table(r) \/ RP_Respond(r)

createSplitBill(r) == SB_Order(r) \/ SB_Payment(r) \/ SB_Share(r) \/ SB_Commit(r)

createBillShare(r) == BS_Create(r)

markShareAsPaid(r) ==
    \/ MS_Update(r) \/ MS_Select(r) \/ MS_Order(r)
    \/ MS_Table(r) \/ MS_Broadcast(r) \/ MS_Commit(r)

\* The tables and the menu are there; nothing has been ordered.
Init ==
    /\ tables = [t \in TableIds |-> "free"]
    /\ menuItems = [m \in MenuIds |-> IF m = 1 THEN 1000 ELSE 500]
    /\ orders = <<>>
    /\ orderItems = <<>>
    /\ payments = <<>>
    /\ billShares = <<>>
    /\ completions = <<>>
    /\ req = [r \in Reqs |-> Idle]
    /\ clients = {}
    /\ sockets = [c \in WsIds |-> NoSocket]

\* The order lifecycle, one request at a time.
Next ==
    \/ createOrder("r1") \/ confirmOrder("r1") \/ updateOrderItemStatus("r1")
    \/ cancelOrderItem("r1") \/ Respond("r1")

Spec == Init /\ [][Next]_vars

\* One order has been taken at table 1, menu item 1 twice and menu item 2
\* once: the state createOrder(1, <<item 1 x 2, item 2 x 1>>) leaves.
InitSettle ==
    /\ tables = [t \in TableIds |-> IF t = 1 THEN "occupied" ELSE "free"]
    /\ menuItems = [m \in MenuIds |-> IF m = 1 THEN 1000 ELSE 500]
    /\ orders = << [tableId |-> 1, status |-> "pending", total |-> 2500] >>
    /\ orderItems =
          << [orderId |-> 1, menuItemId |-> 1, quantity |-> 2,
              status |-> "queued", price |-> 1000],
             [orderId |-> 1, menuItemId |-> 2, quantity |-> 1,
              status |-> "queued", price |-> 500] >>
    /\ payments = <<>>
    /\ billShares = <<>>
    /\ completions = <<>>
    /\ req = [r \in Reqs |-> Idle]
    /\ clients = {}
    /\ sockets = [c \in WsIds |-> NoSocket]

Settle(r) ==
    \/ confirmOrder(r) \/ recordPayment(r) \/ createSplitBill(r)
    \/ createBillShare(r) \/ markShareAsPaid(r) \/ Respond(r)

\* The settlement of the order, one request at a time.
NextSettle == Settle("r1")

SpecSettle == InitSettle /\ [][NextSettle]_vars

\* The settlement of the order by two clients at once.
NextConc == \E r \in Reqs : Settle(r)

SpecConc == InitSettle /\ [][NextConc]_vars

\* ------------------------------------------------------------- updateTable
\* PATCH /api/tables/:id : storage.updateTableStatus(id, status) with the
\* status of the body, 404 without the table, else broadcast table_updated
UT_Update(r) ==
    /\ req[r] = Idle
    /\ \E id \in TableArgs, status \in tableStatusEnum :
        IF id \in DOMAIN tables
        THEN /\ ~TableLocked(r, id)
             /\ tables' = SetTableStatus(id, status)
             /\ req' = [req EXCEPT ![r] = Response("updateTable", 200, "",
                           <<[type |-> "table_updated", id |-> id]>>)]
        ELSE /\ tables' = tables
             /\ req' = [req EXCEPT ![r] =
                    Response("updateTable", 404, "Table not found", <<>>)]
    /\ UNCHANGED <<menuItems, orders, orderItems, payments, billShares, completions>>
    /\ clients' = clients /\ sockets' = send(req'[r].events)

updateTable(r) == UT_Update(r)

\* The settlement of the order and the table administration, one request at
\* a time.
NextTables == Settle("r1") \/ updateTable("r1")

SpecTables == InitSettle /\ [][NextTables]_vars

\* Cancellations of the items of the order by two clients at once.
NextCancel == \E r \in Reqs : cancelOrderItem(r) \/ Respond(r)

SpecCancel == InitSettle /\ [][NextCancel]_vars

\* ------------------------------------------------------------- updateMenuItem
\* The prices an edit of a menu item may set.
MenuPrices == {500, 1000, 1500}

\* A price edit that also rewrites the price of the order items of the menu
\* item.
UM_Update_Cascade(r) ==
    /\ req[r] = Idle
    /\ \E id \in 1..(NumMenu + 1), price \in MenuPrices :
        IF id \in DOMAIN menuItems
        THEN /\ menuItems' = [menuItems EXCEPT ![id] = price]
             /\ orderItems' = [i \in DOMAIN orderItems |->
                    IF orderItems[i].menuItemId = id
                    THEN [orderItems[i] EXCEPT !.price = price]
                    ELSE orderItems[i]]
             /\ req' = [req EXCEPT ![r] = Response("updateMenuItem", 200, "",
                           <<[type |-> "menu_item_updated", id |-> id]>>)]
        ELSE /\ menuItems' = menuItems
             /\ orderItems' = orderItems
             /\ req' = [req EXCEPT ![r] =
                    Response("updateMenuItem", 404, "Menu item not found", <<>>)]
    /\ UNCHANGED <<tables, orders, payments, billShares, completions>>
    /\ clients' = clients /\ sockets' = send(req'[r].events)

\* PATCH /api/menu/:id : storage.updateMenuItem(id, req.body) with a price in
\* the body, 404 without the menu item, else broadcast menu_item_updated
UM_Update(r) ==
    /\ req[r] = Idle
    /\ \E id \in 1..(NumMenu + 1), price \in MenuPrices :
        IF id \in DOMAIN menuItems
        THEN /\ menuItems' = [menuItems EXCEPT ![id] = price]
             /\ req' = [req EXCEPT ![r] = Response("updateMenuItem", 200, "",
                           <<[type |-> "menu_item_updated", id |-> id]>>)]
        ELSE /\ menuItems' = menuItems
             /\ req' = [req EXCEPT ![r] =
                    Response("updateMenuItem", 404, "Menu item not found", <<>>)]
    /\ UNCHANGED <<tables, orders, orderItems, payments, billShares, completions>>
    /\ clients' = clients /\ sockets' = send(req'[r].events)

updateMenuItem(r) == UM_Update(r)

\* Orders are taken and their items cancelled while the menu is edited, one
\* request at a time.
NextMenu ==
    \/ createOrder("r1") \/ cancelOrderItem("r1") \/ updateMenuItem("r1")
    \/ Respond("r1")

SpecMenu == Init /\ [][NextMenu]_vars

\* ------------------------------------------------------------- broadcasts and
\* ------------------------------------------------------------- their clients
\* A request of the client, while there is room for what it broadcasts.
WS_Request(r) == Room /\ (confirmOrder(r) \/ recordPayment(r))

\* Sockets connect, close and fail while a client confirms and pays the order.
NextWs ==
    \/ \E c \in WsIds : WS_Connection(c) \/ WS_Closing(c) \/ WS_Error(c) \/ WS_Close(c)
    \/ WS_Request("r1")
    \/ Respond("r1")

SpecWs == InitSettle /\ [][NextWs]_vars

\* ============================================================= claims
\* No request is being handled: every handler has run to its response.
Quiet == \A r \in Reqs : req[r].pc \in {"idle", "done"}

SharesOf(p) == {s \in DOMAIN billShares : billShares[s].paymentId = p}

AllSharesPaid(p) == \A s \in SharesOf(p) : billShares[s].paid

\* C1: after every mutating operation, the total of every order is the sum of
\* price x quantity over its items that are not cancelled.
C1_TotalIsSumOfActiveItems ==
    Quiet => \A o \in DOMAIN orders : orders[o].total = ActiveTotal(o)

\* C2: the order of a payment that has bill shares is completed only if every
\* share of the payment is paid.
C2_CompletedOnlyIfAllSharesPaid ==
    \A p \in DOMAIN payments :
        (SharesOf(p) # {} /\ orders[payments[p].orderId].status = "completed")
            => AllSharesPaid(p)

\* C3: the step that pays the last unpaid share of a payment also completes
\* the order and frees the table: no state has all shares paid with the order
\* not completed or the table not free.
C3_LastShareCompletesAtomically ==
    [][\A p \in DOMAIN payments :
          (~AllSharesPaid(p) /\ AllSharesPaid(p)')
              => /\ orders'[payments[p].orderId].status = "completed"
                 /\ tables'[payments[p].tableId] = "free"]_vars

\* Another share of the payment of share s is unpaid.
SiblingUnpaid(s) ==
    \E x \in DOMAIN billShares :
        /\ x # s
        /\ billShares[x].paymentId = billShares[s].paymentId
        /\ ~billShares[x].paid

\* C4: markShareAsPaid on a share that has an unpaid sibling sets the paid
\* flag of that share and changes nothing else: no order, no table, no other
\* share, and it broadcasts nothing.
C4_UnpaidSiblingFrame ==
    [][\A r \in Reqs :
          (/\ req[r].op = "markShareAsPaid" /\ req[r].pc # "done"
           /\ SiblingUnpaid(req[r].shareId))
          => /\ UNCHANGED <<tables, menuItems, orders, orderItems, payments>>
             /\ req'[r].op = "markShareAsPaid"
             /\ req'[r].events = <<>>
             /\ billShares' =
                   IF req'[r].pc = "done"
                   THEN [billShares EXCEPT ![req[r].shareId].paid = TRUE]
                   ELSE billShares
             /\ req'[r].pc = "done" => req'[r].http = 200]_vars

\* markShareAsPaid has answered 200 without a broadcast, a share of the
\* payment is paid and another is not, the order is still confirmed.
C4_Witness ==
    /\ req["r1"].op = "markShareAsPaid" /\ req["r1"].pc = "done"
    /\ req["r1"].http = 200 /\ req["r1"].events = <<>>
    /\ \E s, x \in DOMAIN billShares :
          /\ billShares[s].paymentId = billShares[x].paymentId
          /\ billShares[s].paid /\ ~billShares[x].paid
          /\ orders[payments[billShares[s].paymentId].orderId].status = "confirmed"
          /\ tables[payments[billShares[s].paymentId].tableId] = "occupied"

\* Both clients have their answer to a markShareAsPaid that went through.
BothCommitted ==
    \A r \in Reqs :
        req[r].op = "markShareAsPaid" /\ req[r].pc = "done" /\ req[r].http = 200

\* C5: of two concurrent markShareAsPaid on the last two unpaid shares of a
\* payment one observes that all shares are paid: once both have committed
\* and every share is paid, the order is completed and the table is free.
C5_ConcurrentLastSharesComplete ==
    \A p \in DOMAIN payments :
        (BothCommitted /\ SharesOf(p) # {} /\ AllSharesPaid(p))
            => /\ orders[payments[p].orderId].status = "completed"
               /\ tables[payments[p].tableId] = "free"

\* C6: the completion step (order completed, table free, broadcast of
\* split_bill_completed) is carried out at most once for a payment.
C6_CompletionAtMostOnce ==
    \A p \in DOMAIN completions : completions[p] <= 1

\* What createSplitBill has to turn down: no share, a blank name, an amount
\* that is not positive, a sum more than 0.01 from the total of the order, an
\* order that is not confirmed.
Rejectable(o, shares) ==
    \/ Len(shares) = 0
    \/ \E k \in DOMAIN shares : shares[k].customerName \in {"", " "}
    \/ \E k \in DOMAIN shares : shares[k].amount <= 0
    \/ /\ o \in DOMAIN orders
       /\ Abs(sharesTotal(shares) - 2 * orders[o].total) > Tolerance
    \/ /\ o \in DOMAIN orders
       /\ orders[o].status # "confirmed"

\* C7: createSplitBill fails and persists nothing when the share list is
\* empty, a name is blank, an amount is not positive, the shares sum to more
\* than 0.01 from the order total, or the order is not confirmed: a request
\* goes past its checks only if none of these holds, and every step of a
\* request other than the commit of a success leaves the database as it was.
C7_RejectedSplitPersistsNothing ==
    /\ [](\A r \in Reqs :
            (req[r].op = "createSplitBill" /\ req[r].pc # "done")
                => ~Rejectable(req[r].orderId, req[r].shares))
    /\ [][\A r \in Reqs :
            /\ (/\ req'[r].op = "createSplitBill"
                /\ ~(req'[r].pc = "done" /\ req'[r].http = 201))
               => UNCHANGED db
            /\ (/\ req[r] = Idle
                /\ req'[r].op = "createSplitBill" /\ req'[r].pc = "done")
               => req'[r].http = 400]_vars

\* A split whose shares do not add up has been turned down and nothing is
\* stored for the confirmed order.
C7_Witness ==
    /\ req["r1"].op = "createSplitBill" /\ req["r1"].pc = "done"
    /\ req["r1"].http = 400
    /\ req["r1"].error = "Shares total must equal order total"
    /\ orders[1].status = "confirmed"
    /\ payments = <<>> /\ billShares = <<>>

\* C8: a createSplitBill that succeeds with n shares persists one payment, of
\* the order and of its total, and n bill shares of that payment, all unpaid,
\* and leaves the payments and shares there were.
C8_SplitPersistsPaymentAndShares ==
    [][\A r \in Reqs :
          (/\ req[r].op = "createSplitBill" /\ req[r].pc # "done"
           /\ req'[r].pc = "done" /\ req'[r].http = 201)
          => LET o == req[r].orderId
                 n == Len(req[r].shares)
                 p == Len(payments) + 1
                 m == Len(billShares)
             IN /\ n >= 1
                /\ Len(payments') = p
                /\ SubSeq(payments', 1, p - 1) = payments
                /\ payments'[p].orderId = o
                /\ payments'[p].amount = orders[o].total
                /\ Len(billShares') = m + n
                /\ SubSeq(billShares', 1, m) = billShares
                /\ \A k \in 1..n :
                      /\ billShares'[m + k].paymentId = p
                      /\ ~billShares'[m + k].paid]_vars

\* A split in two has succeeded: one payment of the order total, two unpaid
\* shares.
C8_Witness ==
    /\ req["r1"].op = "createSplitBill" /\ req["r1"].pc = "done"
    /\ req["r1"].http = 201
    /\ Len(payments) = 1 /\ payments[1].amount = orders[1].total
    /\ Len(billShares) = 2
    /\ \A s \in DOMAIN billShares : billShares[s].paymentId = 1 /\ ~billShares[s].paid

\* C9: right after a createSplitBill that succeeds, the amounts of the shares
\* stored for the payment sum to within 0.01 of the amount of the payment,
\* which is the total of the order.
C9_SharesSumToPaymentAmount ==
    \A r \in Reqs :
        (req[r].op = "createSplitBill" /\ req[r].pc = "done" /\ req[r].http = 201)
        => LET p == Len(payments)
           IN /\ Abs(SetSum(SharesOf(p), [s \in DOMAIN billShares |-> billShares[s].amount])
                     - payments[p].amount) <= 1
              /\ payments[p].amount = orders[payments[p].orderId].total

\* C10: an order has at most one payment, whatever the number of recordPayment
\* and createSplitBill calls and however they interleave, and no
\* createSplitBill succeeds for an order that is completed or paid for.
C10_OnePaymentPerOrder ==
    /\ [](\A o \in DOMAIN orders : Cardinality(PaymentOf(o)) <= 1)
    /\ [][\A r \in Reqs :
            (/\ req[r].op = "createSplitBill" /\ req[r].pc # "done"
             /\ req'[r].pc = "done" /\ req'[r].http = 201)
            => /\ orders[req[r].orderId].status # "completed"
               /\ PaymentOf(req[r].orderId) = {}]_vars

\* The order has its payment, and a second one has been turned down by the
\* unique constraint.
C10_Witness ==
    /\ \E r \in Reqs :
          /\ req[r].pc = "done" /\ req[r].http = 400
          /\ req[r].op \in {"recordPayment", "createSplitBill"}
          /\ req[r].error = "duplicate key value violates unique constraint"
    /\ Cardinality(PaymentOf(1)) = 1

\* C11: split_bill_completed is broadcast only once the transaction of
\* markShareAsPaid has committed: a markShareAsPaid whose transaction is still
\* open has broadcast nothing.
C11_BroadcastAfterCommit ==
    \A r \in Reqs :
        (req[r].op = "markShareAsPaid" /\ req[r].pc # "done")
            => \A k \in DOMAIN req[r].events :
                  req[r].events[k].type # "split_bill_completed"

\* The operations that change the orders and their settlement.
MutatingOps ==
    {"createOrder", "confirmOrder", "updateOrderItemStatus", "cancelOrderItem",
     "recordPayment", "createSplitBill", "markShareAsPaid"}

\* C12: every mutating operation that succeeds has broadcast exactly one
\* event, and every one that fails has broadcast none.
C12_OneBroadcastPerSuccess ==
    \A r \in Reqs :
        (req[r].pc = "done" /\ req[r].op \in MutatingOps)
            => Len(req[r].events) = (IF req[r].http < 400 THEN 1 ELSE 0)

\* C14: completed and cancelled are terminal: no step changes the status of
\* an order that is completed or cancelled.
C14_TerminalStatuses ==
    [][\A o \in DOMAIN orders :
          orders[o].status \in {"completed", "cancelled"}
              => orders'[o].status = orders[o].status]_vars

\* An order of table t is not settled: it is pending or confirmed.
Unsettled(t) ==
    \E o \in DOMAIN orders :
        orders[o].tableId = t /\ orders[o].status \in {"pending", "confirmed"}

\* C13: no step takes a table from occupied to free while an order of that
\* table is pending or confirmed.
C13_FreeOnlyWhenSettled ==
    [][\A t \in TableIds :
          (tables[t] = "occupied" /\ tables'[t] = "free") => ~Unsettled(t)']_vars

\* The statuses in which an item can no longer be cancelled.
PastCancelling == {"preparing", "almost_ready", "ready", "delivered", "cancelled"}

\* C15: cancelOrderItem on an item that is preparing, almost_ready, ready,
\* delivered or cancelled fails: the handler goes on only for an item in none
\* of these statuses, and a call it turns down is answered 400 (404 without
\* the item), changes no item status and no total, and broadcasts nothing.
C15_CancelPastQueuedFails ==
    [][\A r \in Reqs :
          (req[r] = Idle /\ req'[r].op = "cancelOrderItem")
          => /\ UNCHANGED db
             /\ IF req'[r].pc = "done"
                THEN req'[r].http \in {400, 404} /\ req'[r].events = <<>>
                ELSE orderItems[req'[r].itemId].status \notin PastCancelling]_vars

\* A cancel has been turned down with 400 while every item there is is past
\* cancelling, one of them cancelled already.
C15_Witness ==
    /\ req["r1"].op = "cancelOrderItem" /\ req["r1"].pc = "done"
    /\ req["r1"].http = 400
    /\ orderItems # <<>>
    /\ \A i \in DOMAIN orderItems : orderItems[i].status \in PastCancelling
    /\ \E i \in DOMAIN orderItems : orderItems[i].status = "cancelled"
    /\ \E i \in DOMAIN orderItems : orderItems[i].status = "preparing"

\* C16: a cancelOrderItem that has gone past the guard (the item was queued)
\* ends in success with the item cancelled, the total of the order that owns
\* the item equal to the sum over its items that are not cancelled, and one
\* broadcast, order_item_cancelled.
C16_CancelQueuedRecomputesOwner ==
    [][\A r \in Reqs :
          (/\ req[r].op = "cancelOrderItem" /\ req[r].pc # "done"
           /\ req'[r].pc = "done")
          => \A i \in DOMAIN orderItems, o \in DOMAIN orders :
                (i = req[r].itemId /\ o = orderItems[i].orderId)
                => /\ req'[r].http = 200
                   /\ orderItems'[i].status = "cancelled"
                   /\ orders'[o].total = ActiveTotal(o)'
                   /\ Len(req'[r].events) = 1
                   /\ req'[r].events[1].type = "order_item_cancelled"]_vars

\* Both clients have the answer to a cancelOrderItem that recomputed a total.
BothCancelled ==
    \A r \in Reqs :
        /\ req[r].op = "cancelOrderItem" /\ req[r].pc = "done"
        /\ req[r].http = 200 /\ Len(req[r].events) = 1

\* C17: when two cancelOrderItem calls on different queued items of one order
\* overlap, the total of the order reflects both cancellations once both
\* have answered.
C17_ConcurrentCancelsTotal ==
    \A o \in DOMAIN orders :
        (/\ BothCancelled
         /\ \A r \in Reqs : req[r].events[1].id = o
         /\ \A i \in ItemsOf(o) : orderItems[i].status = "cancelled")
        => orders[o].total = ActiveTotal(o)

\* The requested items whose menu item exists, in the order of the request.
Kept(requested) ==
    LET Exists(it) == it.menuItemId \in DOMAIN menuItems
    IN SelectSeq(requested, Exists)

\* C18: createOrder succeeds with one order item per requested item whose
\* menu item exists, none for the others, and the total of the order is the
\* sum of quantity x menu price over the items it kept.
C18_CreateOrderSkipsUnknownItems ==
    [][\A r \in Reqs :
          (/\ req[r].op = "createOrder" /\ req[r].pc = "respond"
           /\ req'[r].pc = "done")
          => LET o == req[r].orderId
                 kept == Kept(req[r].requested)
                 first == Len(orderItems) - Len(kept)
             IN /\ req'[r].http = 201
                /\ UNCHANGED db
                /\ ItemsOf(o) = (first + 1)..Len(orderItems)
                /\ \A k \in DOMAIN kept :
                      /\ orderItems[first + k].menuItemId = kept[k].menuItemId
                      /\ orderItems[first + k].quantity = kept[k].quantity
                /\ orders[o].total =
                      SeqSum([k \in DOMAIN kept |->
                                 kept[k].quantity * menuItems[kept[k].menuItemId]])]_vars

\* createOrder has done its writes for a request of two items, one of them
\* without a menu item: the order has the one row and its total.
C18_Witness ==
    /\ req["r1"].op = "createOrder" /\ req["r1"].pc = "respond"
    /\ Len(req["r1"].requested) = 2
    /\ \E k \in DOMAIN req["r1"].requested :
          req["r1"].requested[k].menuItemId \notin DOMAIN menuItems
    /\ Cardinality(ItemsOf(req["r1"].orderId)) = 1
    /\ orders[req["r1"].orderId].total > 0

\* C19: when createOrder(tableId, items) answers with success, the new order
\* is pending, every order item it created is queued, and table tableId is
\* occupied.
C19_NewOrderPendingQueuedOccupied ==
    [][\A r \in Reqs :
          (/\ req[r].op = "createOrder" /\ req[r].pc # "done"
           /\ req'[r].pc = "done" /\ req'[r].http = 201)
          => LET o == req[r].orderId
             IN /\ orders'[o].status = "pending"
                /\ orders'[o].tableId = req[r].tableId
                /\ \A i \in DOMAIN orderItems' :
                      orderItems'[i].orderId = o => orderItems'[i].status = "queued"
                /\ tables'[req[r].tableId] = "occupied"]_vars

\* createOrder has answered 201 for the newest order, which has items, at a
\* table that is occupied.
C19_Witness ==
    /\ req["r1"].op = "createOrder" /\ req["r1"].pc = "done"
    /\ req["r1"].http = 201
    /\ orders # <<>>
    /\ ItemsOf(Len(orders)) # {}
    /\ orders[Len(orders)].status = "pending"
    /\ tables[orders[Len(orders)].tableId] = "occupied"

\* C20: the price of an order item is the price of its menu item when
\* createOrder inserts it; no step changes the price of an order item there
\* is, and an edit of a menu price changes no order item and no order.
C20_PriceIsSnapshot ==
    [][/\ \A i \in DOMAIN orderItems :
             orderItems'[i].price = orderItems[i].price
       /\ \A i \in DOMAIN orderItems' \ DOMAIN orderItems :
             orderItems'[i].price = menuItems[orderItems'[i].menuItemId]
       /\ menuItems' # menuItems
             => orders' = orders /\ orderItems' = orderItems]_vars

\* A menu price has been edited and an order item still carries the price
\* its menu item had, with the total of its order.
C20_Witness ==
    /\ req["r1"].op = "updateMenuItem" /\ req["r1"].pc = "done"
    /\ req["r1"].http = 200
    /\ \E i \in DOMAIN orderItems :
          /\ orderItems[i].price # menuItems[orderItems[i].menuItemId]
          /\ orderItems[i].status = "queued"
          /\ orders[orderItems[i].orderId].total = ActiveTotal(orderItems[i].orderId)


\* C21: confirmOrder on an order id that names no order fails with the not
\* found answer, changes nothing in the database and broadcasts nothing; a
\* confirmOrder that goes on past its update names an order that exists.
C21_ConfirmMissingOrderFails ==
    [][\A r \in Reqs :
          (req[r] = Idle /\ req'[r].op = "confirmOrder")
          => IF req'[r].pc = "done"
             THEN /\ req'[r].http = 404
                  /\ req'[r].error = "Order not found"
                  /\ req'[r].events = <<>>
                  /\ UNCHANGED db
             ELSE req'[r].orderId \in DOMAIN orders]_vars

\* A confirmOrder has been answered 404 while the order of the database is
\* still pending.
C21_Witness ==
    /\ req["r1"] = Response("confirmOrder", 404, "Order not found", <<>>)
    /\ orders # <<>>
    /\ \A o \in DOMAIN orders : orders[o].status = "pending"


\* C22: confirmOrder overwrites: its update leaves the order confirmed with
\* the total it had and touches nothing else, and applied to an order that
\* a confirmOrder has confirmed already it leaves the whole database as it
\* is, so two in a row store what one stores.
C22_ConfirmIsIdempotent ==
    [][\A r \in Reqs :
          (req[r] = Idle /\ req'[r].op = "confirmOrder" /\ req'[r].pc = "respond")
          => /\ \A o \in DOMAIN orders :
                  orders'[o] = IF o = req'[r].orderId
                               THEN [orders[o] EXCEPT !.status = "confirmed"]
                               ELSE orders[o]
             /\ DOMAIN orders' = DOMAIN orders
             /\ UNCHANGED <<tables, menuItems, orderItems, payments, billShares>>
             /\ orders[req'[r].orderId].status = "confirmed" => UNCHANGED db]_vars

\* Two confirmOrder of the order that was pending have both applied their
\* update, one is answered and the other about to be: the order is confirmed
\* with its total, its items and its table as after one.
C22_Witness ==
    /\ req["r2"] = Response("confirmOrder", 200, "",
                            <<[type |-> "order_confirmed", id |-> 1]>>)
    /\ req["r1"] = [op |-> "confirmOrder", pc |-> "respond", orderId |-> 1]
    /\ orders[1] = [tableId |-> 1, status |-> "confirmed", total |-> 2500]
    /\ \A i \in ItemsOf(1) : orderItems[i].status = "queued"
    /\ tables[1] = "occupied"
    /\ payments = <<>>


\* C23: updateOrderItemStatus broadcasts order_ready exactly when the new
\* status is ready and every item of the order that owns the updated item
\* is ready, delivered or cancelled.
C23_OrderReadyIffOwnerAllReady ==
    [][\A r \in Reqs :
          (req[r].op = "updateOrderItemStatus" /\ req[r].pc = "respond"
           /\ req'[r].pc = "done")
          => ((\E k \in DOMAIN req'[r].events : req'[r].events[k].type = "order_ready")
              <=> (/\ req[r].status = "ready"
                   /\ allReady(orderItems[req[r].itemId].orderId)))]_vars


\* C24: a recordPayment without the split flag that succeeds has stored the
\* payment row of its order and table, has set that order completed and that
\* table free, and broadcasts payment_processed, once, with isSplitBill false.
C24_PlainPaymentCompletes ==
    [][\A r \in Reqs :
          (req[r].op = "recordPayment" /\ req[r].pc # "done"
           /\ req'[r].pc = "done" /\ req'[r].http = 201 /\ ~req[r].isSplitBill)
          => /\ req[r].paymentId \in DOMAIN payments'
             /\ payments'[req[r].paymentId].orderId = req[r].orderId
             /\ payments'[req[r].paymentId].tableId = req[r].tableId
             /\ orders'[req[r].orderId].status = "completed"
             /\ tables'[req[r].tableId] = "free"
             /\ req'[r].events =
                   <<[type |-> "payment_processed", id |-> req[r].paymentId,
                      orderId |-> req[r].orderId, tableId |-> req[r].tableId,
                      isSplitBill |-> FALSE]>>]_vars

\* A plain payment of the order of table 1 has been answered 201: the table,
\* which was occupied, is free and the order, which was pending, completed.
C24_Witness ==
    /\ req["r1"].op = "recordPayment" /\ req["r1"].pc = "done"
    /\ req["r1"].http = 201
    /\ req["r1"].events[1].isSplitBill = FALSE
    /\ req["r1"].events[1].tableId = 1
    /\ payments = <<[orderId |-> 1, tableId |-> 1, amount |-> 2500]>>
    /\ orders[1].status = "completed"
    /\ tables[1] = "free"


\* C25: no step of a createSplitBill writes an order, an order item or a
\* table, and the one that succeeds leaves its order confirmed and has
\* broadcast nothing.
C25_SplitBillFrame ==
    [][\A r \in Reqs :
          (req'[r].op = "createSplitBill" /\ req[r].pc # "done")
          => /\ UNCHANGED <<orders, orderItems, tables>>
             /\ (req'[r].pc = "done" /\ req'[r].http = 201)
                => /\ orders'[req[r].orderId].status = "confirmed"
                   /\ req'[r].events = <<>>]_vars

\* A split of the order of table 1 in three shares has succeeded: the order
\* is confirmed with its total, its items are queued, the table is occupied.
C25_Witness ==
    /\ req["r1"] = Response("createSplitBill", 201, "", <<>>)
    /\ Len(billShares) = 3
    /\ orders[1] = [tableId |-> 1, status |-> "confirmed", total |-> 2500]
    /\ \A i \in ItemsOf(1) : orderItems[i].status = "queued"
    /\ tables[1] = "occupied"


\* C26: markShareAsPaid on a share id that names no bill share fails with
\* the share not found answer, changes no bill share, order or table, and
\* broadcasts nothing; a markShareAsPaid that goes on names a share that
\* exists.
C26_MarkMissingShareFails ==
    [][\A r \in Reqs :
          (req[r] = Idle /\ req'[r].op = "markShareAsPaid")
          => IF req'[r].pc = "done"
             THEN /\ req'[r].http >= 400
                  /\ req'[r].error = "Share not found"
                  /\ req'[r].events = <<>>
                  /\ UNCHANGED db
             ELSE req'[r].shareId \in DOMAIN billShares]_vars

\* A markShareAsPaid has been turned down for a share id past the two
\* shares of the split, which are both still unpaid.
C26_Witness ==
    /\ req["r1"].op = "markShareAsPaid" /\ req["r1"].pc = "done"
    /\ req["r1"].error = "Share not found"
    /\ Len(billShares) = 2
    /\ \A s \in DOMAIN billShares : ~billShares[s].paid
    /\ orders[1].status = "confirmed" /\ tables[1] = "occupied"


\* C27: a createSplitBill or markShareAsPaid that fails leaves the database
\* as it was before the request, also when it fails after its first write:
\* no step before the commit of the transaction changes what is stored, and
\* the failing step stores nothing.
C27_FailedTransactionRollsBack ==
    [][\A r \in Reqs :
          (/\ req[r].op \in {"createSplitBill", "markShareAsPaid"}
           /\ req[r].pc # "done"
           /\ (req[r].pc # "commit" \/ (req'[r].pc = "done" /\ req'[r].http >= 400)))
          => UNCHANGED db]_vars

\* A split in two halves has been turned down at the insert of its second
\* share, after the inserts of the payment and of the first share: there is
\* no payment and no bill share, and the order is confirmed as it was.
C27_Witness ==
    /\ req["r1"] = Response("createSplitBill", 400,
                            "invalid input syntax for type numeric", <<>>)
    /\ payments = <<>> /\ billShares = <<>>
    /\ orders[1].status = "confirmed" /\ tables[1] = "occupied"


\* What request r broadcasts in the step: the events its record gains.
Broadcast(r) ==
    LET before == IF req[r].pc \notin {"idle", "done"} /\ "events" \in DOMAIN req[r]
                  THEN req[r].events ELSE <<>>
        after == IF req[r].pc # "done" /\ "events" \in DOMAIN req'[r]
                 THEN req'[r].events ELSE <<>>
    IN SubSeq(after, Len(before) + 1, Len(after))

\* What is broadcast in the step: a step is the step of one request.
Sent ==
    LET moved == {r \in Reqs : req'[r] # req[r]}
    IN IF moved = {} THEN <<>> ELSE Broadcast(CHOOSE r \in moved : TRUE)

\* C28: a broadcast hands its message once to every socket that is in the
\* set of clients and open when it is made, and to no other socket; a client
\* that is not open does not make the request fail, and what is not a
\* broadcast sends nothing.
C28_BroadcastReachesOpenClients ==
    [][/\ \A c \in WsIds :
             sockets'[c].received =
                IF c \in clients /\ sockets[c].readyState = "OPEN"
                THEN sockets[c].received \o Sent
                ELSE sockets[c].received
       /\ \A r \in Reqs :
             (Broadcast(r) # <<>> /\ req'[r].pc = "done") => req'[r].http < 400]_vars

\* order_confirmed has been broadcast while socket 1 was open and socket 2
\* closing, both in the set: socket 1 has it, once, socket 2 has nothing,
\* and the request is answered 200.
C28_Witness ==
    /\ req["r1"] = Response("confirmOrder", 200, "",
                            <<[type |-> "order_confirmed", id |-> 1]>>)
    /\ clients = {1, 2}
    /\ sockets[1].readyState = "OPEN"
    /\ sockets[1].received = <<[type |-> "order_confirmed", id |-> 1]>>
    /\ sockets[2].readyState = "CLOSING"
    /\ sockets[2].received = <<>>


\* The sockets that have connected and have neither closed nor failed.
Connected ==
    {c \in WsIds : /\ "connection" \in sockets[c].seen
                   /\ "close" \notin sockets[c].seen
                   /\ "error" \notin sockets[c].seen}

\* A step of a socket: it connects, starts to close, fails or closes.
Churn ==
    \E c \in WsIds : \/ sockets'[c].readyState # sockets[c].readyState
                     \/ sockets'[c].seen # sockets[c].seen

\* C29: however connections, closes and errors fall between the broadcasts,
\* the set of clients is the set of the sockets that have connected and have
\* not closed or failed since; a socket that is out of the set is sent
\* nothing from then on; and a step of a socket changes no table, order,
\* item, payment or share and no request.
C29_ClientsAreTheConnected ==
    /\ [](clients = Connected)
    /\ [][/\ \A c \in WsIds :
               c \notin Connected => sockets'[c].received = sockets[c].received
          /\ Churn => UNCHANGED <<db, completions, req>>]_vars

\* Socket 1 failed after the first broadcast and is still open, socket 2
\* stayed: the second broadcast went to socket 2 alone, and the set holds
\* socket 2 alone, with the order completed by the payment meanwhile.
C29_Witness ==
    /\ sockets[1].seen = {"connection", "error"}
    /\ sockets[1].readyState = "OPEN"
    /\ Len(sockets[1].received) = 1
    /\ Len(sockets[2].received) = 2
    /\ clients = {2}
    /\ orders[1].status = "completed"


\* The messages of a missing order, order item or bill share.
NotFoundErrors == {"Order not found", "Order item not found", "Share not found"}

\* C30: a request that fails is answered 404 when what it names is missing,
\* an order, an order item or a bill share, and 400 or 500 otherwise: 404
\* exactly for the not found failures, in every operation, createSplitBill
\* and markShareAsPaid included.
C30_ErrorCodes ==
    \A r \in Reqs :
        (req[r].pc = "done" /\ req[r].http >= 400)
        => /\ req[r].http \in {400, 404, 500}
           /\ req[r].http = 404 <=> req[r].error \in NotFoundErrors


\* C31: updateOrderItemStatus of an item that exists can be made with every
\* status of the enum whatever the status of the item, it writes that status
\* into that item and nothing else, and it is answered 200.
C31_ItemStatusOverwrite ==
    /\ [](\A r \in {"r1"} :
            req[r] = Idle
            => \A i \in DOMAIN orderItems : \A st \in orderItemStatusEnum :
                  ENABLED (/\ UI_Update(r)
                           /\ req'[r].pc = "respond"
                           /\ req'[r].itemId = i /\ req'[r].status = st))
    /\ [][\A r \in Reqs :
            /\ (req[r] = Idle /\ req'[r].op = "updateOrderItemStatus"
                /\ req'[r].pc = "respond")
               => /\ orderItems' = [orderItems EXCEPT
                                       ![req'[r].itemId].status = req'[r].status]
                  /\ UNCHANGED <<tables, menuItems, orders, payments, billShares>>
            /\ (req[r].op = "updateOrderItemStatus" /\ req[r].pc = "respond")
               => (req'[r].pc = "done" /\ req'[r].http = 200 /\ UNCHANGED db)]_vars

\* The one item of order 1 was cancelled, which brought the total to 0, and
\* has since been set to ready by an update answered 200.
C31_Witness ==
    /\ req["r1"].op = "updateOrderItemStatus" /\ req["r1"].pc = "done"
    /\ req["r1"].http = 200
    /\ Len(orders) = 1 /\ orders[1].total = 0
    /\ Len(orderItems) = 1 /\ orderItems[1].status = "ready"


\* C32: a recordPayment with the split flag stores the payment row and
\* writes no order and no table at any of its steps, and it broadcasts
\* payment_processed, once, with isSplitBill true.
C32_SplitFlagDefersCompletion ==
    [][\A r \in Reqs :
          /\ (req[r] = Idle /\ req'[r].op = "recordPayment" /\ req'[r].pc # "done"
              /\ req'[r].isSplitBill)
             => /\ payments' = Append(payments,
                       [orderId |-> req'[r].orderId, tableId |-> req'[r].tableId,
                        amount |-> payments'[Len(payments')].amount])
                /\ UNCHANGED <<orders, tables>>
          /\ (req[r].op = "recordPayment" /\ req[r].pc # "done" /\ req[r].isSplitBill)
             => /\ UNCHANGED <<orders, tables, payments>>
                /\ req'[r].pc = "done" /\ req'[r].http = 201
                /\ req'[r].events =
                      <<[type |-> "payment_processed", id |-> req[r].paymentId,
                         orderId |-> req[r].orderId, tableId |-> req[r].tableId,
                         isSplitBill |-> TRUE]>>]_vars

\* A payment with the split flag of the pending order of table 1 has been
\* answered 201: the payment is stored, the order is still pending and the
\* table still occupied.
C32_Witness ==
    /\ req["r1"].op = "recordPayment" /\ req["r1"].pc = "done"
    /\ req["r1"].http = 201
    /\ req["r1"].events[1].isSplitBill = TRUE
    /\ payments = <<[orderId |-> 1, tableId |-> 1, amount |-> 2500]>>
    /\ orders[1].status = "pending"
    /\ tables[1] = "occupied"


\* C33: a recordPayment of an order that has a payment already is turned
\* down: it goes on past its insert only for an order without a payment,
\* and the one that is turned down stores nothing, so that order and table
\* keep their status, and broadcasts nothing.
C33_SecondPaymentFails ==
    [][\A r \in Reqs :
          (req[r] = Idle /\ req'[r].op = "recordPayment")
          => IF req'[r].pc = "done"
             THEN /\ req'[r].http = 400
                  /\ req'[r].events = <<>>
                  /\ UNCHANGED db
             ELSE PaymentOf(req'[r].orderId) = {}]_vars

\* The order has the payment of its split in three and is still confirmed,
\* at an occupied table; a recordPayment has been turned down for the
\* unique key.
C33_Witness ==
    /\ req["r1"] = Response("recordPayment", 400,
                            "duplicate key value violates unique constraint", <<>>)
    /\ Len(payments) = 1 /\ Len(billShares) = 3
    /\ orders[1].status = "confirmed"
    /\ tables[1] = "occupied"


\* C34: an order becomes completed from confirmed only: no step completes
\* an order that is pending or cancelled.
C34_CompletedOnlyFromConfirmed ==
    [][\A o \in DOMAIN orders :
          (orders'[o].status = "completed" /\ orders[o].status # "completed")
          => orders[o].status = "confirmed"]_vars


\* C35: the paid flag of a bill share never goes back from true to false,
\* and a payment whose shares are all paid keeps all its shares paid.
C35_PaidIsMonotone ==
    [][/\ \A s \in DOMAIN billShares :
             billShares[s].paid => (s \in DOMAIN billShares' /\ billShares'[s].paid)
       /\ \A p \in DOMAIN payments :
             (SharesOf(p) # {} /\ AllSharesPaid(p)) => AllSharesPaid(p)']_vars


\* C36: the table of every payment is the table of the order of the payment.
C36_PaymentTableIsOrderTable ==
    \A p \in DOMAIN payments :
        payments[p].tableId = orders[payments[p].orderId].tableId


\* C37: no step of a cancelOrderItem changes the total of an order that does
\* not own the item, and when the cancelOrderItem is answered 200 the total
\* of the order that owns the item is the sum over its items that are not
\* cancelled, whatever order id the request names.
C37_CancelTouchesOwnerOnly ==
    [][\A r \in Reqs :
          (req[r].op = "cancelOrderItem" /\ req[r].pc # "done")
          => \A i \in DOMAIN orderItems, o \in DOMAIN orders :
                (i = req[r].itemId /\ o = orderItems[i].orderId)
                => /\ \A q \in DOMAIN orders \ {o} :
                         orders'[q].total = orders[q].total
                   /\ (req'[r].pc = "done" /\ req'[r].http = 200)
                      => orders'[o].total = ActiveTotal(o)']_vars


\* The amounts of the shares of payment p sum to within 0.01 of its amount,
\* as those of a split do when createSplitBill has committed them.
SharesMatch(p) ==
    /\ SharesOf(p) # {}
    /\ Abs(SetSum(SharesOf(p), [s \in DOMAIN billShares |-> billShares[s].amount])
           - payments[p].amount) <= 1

\* C38: once a createSplitBill has committed the shares of a payment, no
\* step adds or removes a share of that payment or changes the amount of
\* one, so the amounts of its shares keep summing to within 0.01 of the
\* amount of the payment.
C38_SharesOfSplitAreFixed ==
    [][\A p \in DOMAIN payments :
          SharesMatch(p)
          => /\ SharesOf(p)' = SharesOf(p)
             /\ \A s \in SharesOf(p) : billShares'[s].amount = billShares[s].amount
             /\ SharesMatch(p)']_vars


\* C39: createOrder is all or nothing: a createOrder that is answered with
\* a failure leaves no order, no order item and no table status behind, and
\* while a createOrder is at work the order it has inserted is never to be
\* read with a total other than the sum over its items.
C39_CreateOrderAllOrNothing ==
    /\ [][\A r \in Reqs :
            (req[r].pc # "done" /\ req'[r].op = "createOrder"
             /\ req'[r].pc = "done" /\ req'[r].http >= 400)
            => (orders' = orders /\ orderItems' = orderItems /\ tables' = tables)]_vars
    /\ [](\A r \in Reqs :
            (req[r].op = "createOrder" /\ req[r].pc # "done")
            => orders[req[r].orderId].total = ActiveTotal(req[r].orderId))

====
